---------------------------- MODULE Spec2Model ----------------------------
(***************************************************************************)
(* Model of the DocumentProcessor repository: the CSV and XLSX adapters'   *)
(* extraction-and-chunking loops (src/processors), the processor factory   *)
(* (src/core.py) and the XLSX workbook handle's life cycle.                *)
(*                                                                         *)
(* Text is modelled by TLA+ strings (Len, SubSeq and \o act on them as on  *)
(* Python's str).  Two characters of the source are not ASCII and are      *)
(* written here by one-character stand-ins that no input contains:         *)
(*    FullWidthSemicolon  "%"  for U+FF1B                                  *)
(*    LineBreakMark       "^"  for U+21B5                                  *)
(* Python's None / True / False cell values are the reserved strings       *)
(* PyNone / PyTrue / PyFalse, which no input string equals.                *)
(***************************************************************************)
EXTENDS Integers, Sequences, FiniteSets, TLC

(***************************************************************************)
(* Bounds of the model.                                                    *)
(***************************************************************************)
\* rows read from one file by one extract_text call
MaxRows == 2

(***************************************************************************)
(* Program constants.                                                      *)
(***************************************************************************)
OVERHEAD_PADDING == 3

FullWidthSemicolon == "%"
LineBreakMark == "^"
PyNone == "<None>"
PyTrue == "<True>"
PyFalse == "<False>"
NoLink == "<NoLink>"

(***************************************************************************)
(* Python string primitives.                                               *)
(***************************************************************************)
Min(a, b) == IF a < b THEN a ELSE b

CharAt(s, k) == SubSeq(s, k, k)

\* s[start:end] for 0 <= start, 0 <= end (Python slice, clipped to the string)
Slice(s, start, end) == SubSeq(s, start + 1, Min(end, Len(s)))

StartsWith(s, p) == Len(p) <= Len(s) /\ SubSeq(s, 1, Len(p)) = p

\* str.replace(orig, repl) for a one-character orig
RECURSIVE Replace(_, _, _)
Replace(s, orig, repl) ==
    IF s = "" THEN ""
    ELSE (IF CharAt(s, 1) = orig THEN repl ELSE CharAt(s, 1))
         \o Replace(SubSeq(s, 2, Len(s)), orig, repl)

\* str.rstrip(chars): drop every trailing character that is in chars
RECURSIVE RStrip(_, _)
RStrip(s, chars) ==
    IF s = "" THEN ""
    ELSE IF CharAt(s, Len(s)) \in chars THEN RStrip(SubSeq(s, 1, Len(s) - 1), chars)
    ELSE s

\* '\n'.join(parts)
RECURSIVE Join(_)
Join(parts) ==
    IF parts = <<>> THEN ""
    ELSE IF Len(parts) = 1 THEN parts[1]
    ELSE parts[1] \o "\n" \o Join(Tail(parts))

\* list.index(x): the 0-based index of the first occurrence, -1 for ValueError
RECURSIVE IndexFrom(_, _, _)
IndexFrom(list, x, k) ==
    IF k > Len(list) THEN -1
    ELSE IF list[k] = x THEN k - 1
    ELSE IndexFrom(list, x, k + 1)

Index(list, x) == IndexFrom(list, x, 1)

(***************************************************************************)
(* The sanitizer (the same in both adapters).                              *)
(***************************************************************************)
_sanitize_value(value) ==
    Replace(Replace(Replace(Replace(value, ";", FullWidthSemicolon),
                            "\n", LineBreakMark),
                    "\r", ""),
            "\t", "    ")

UniquePrefix(unique_id) == "[ID:" \o unique_id \o "] "

SegmentHeader(field, segment_idx) ==
    field \o " [Part" \o ToString(segment_idx) \o "]: "

\* current_chunk.rstrip('; ')
TrimChunk(current_chunk) == RStrip(current_chunk, {";", " "})


(***************************************************************************)
(* Segmentation of an oversized field.  The two adapters differ in the     *)
(* slice length: the CSV adapter leaves the padding out of it, the XLSX    *)
(* adapter subtracts it.                                                   *)
(***************************************************************************)
CsvSegmentValueLength(unique_prefix, segment_header, max_len_) ==
    LET max_segment_value_length == max_len_ - Len(unique_prefix) - Len(segment_header)
    IN  IF max_segment_value_length <= 0 THEN 1 ELSE max_segment_value_length

\* a slice length that leaves the padding out, as the CSV adapter's does
XlsxSegmentValueLengthNoPadding(unique_prefix, segment_header, max_len_, padding) ==
    CsvSegmentValueLength(unique_prefix, segment_header, max_len_)

XlsxSegmentValueLength(unique_prefix, segment_header, max_len_, padding) ==
    LET max_segment_value_length ==
            max_len_ - Len(unique_prefix) - Len(segment_header) - padding
    IN  IF max_segment_value_length <= 0 THEN 1 ELSE max_segment_value_length

\* a while loop that resumes one character past the end of the slice
SegmentStepSkipping(unique_prefix, field, value, start, segment_idx, length) ==
    LET segment_header == SegmentHeader(field, segment_idx)
        end == start + length
        segment_value == Slice(value, start, end)
    IN  [segment |-> unique_prefix \o segment_header \o segment_value,
         start |-> end + 1,
         segment_idx |-> segment_idx + 1]

\* one pass of the while loop: the segment appended and the new start
SegmentStep(unique_prefix, field, value, start, segment_idx, length) ==
    LET segment_header == SegmentHeader(field, segment_idx)
        end == start + length
        segment_value == Slice(value, start, end)
    IN  [segment |-> unique_prefix \o segment_header \o segment_value,
         start |-> end,
         segment_idx |-> segment_idx + 1]

RECURSIVE CsvSegmentLoop(_, _, _, _, _, _, _)
CsvSegmentLoop(unique_prefix, field, value, max_len_, start, segment_idx, segments) ==
    IF ~(start < Len(value)) THEN segments
    ELSE LET step == SegmentStep(unique_prefix, field, value, start, segment_idx,
                        CsvSegmentValueLength(unique_prefix,
                            SegmentHeader(field, segment_idx), max_len_))
         IN  CsvSegmentLoop(unique_prefix, field, value, max_len_,
                            step.start, step.segment_idx,
                            Append(segments, step.segment))

CsvSegmentLongField(unique_prefix, field, value, max_len_) ==
    CsvSegmentLoop(unique_prefix, field, value, max_len_, 0, 1, <<>>)

RECURSIVE XlsxSegmentLoop(_, _, _, _, _, _, _, _)
XlsxSegmentLoop(unique_prefix, field, value, max_len_, padding, start, segment_idx, segments) ==
    IF ~(start < Len(value)) THEN segments
    ELSE LET step == SegmentStep(unique_prefix, field, value, start, segment_idx,
                        XlsxSegmentValueLength(unique_prefix,
                            SegmentHeader(field, segment_idx), max_len_, padding))
         IN  XlsxSegmentLoop(unique_prefix, field, value, max_len_, padding,
                             step.start, step.segment_idx,
                             Append(segments, step.segment))

XlsxSegmentLongField(unique_prefix, field, value, max_len_, padding) ==
    XlsxSegmentLoop(unique_prefix, field, value, max_len_, padding, 0, 1, <<>>)

(***************************************************************************)
(* Greedy packing.  st is the loop's state: the row's chunks so far, the   *)
(* open buffer current_chunk and its tracked length.                       *)
(***************************************************************************)
OpenBuffer(unique_prefix) ==
    [chunks |-> <<>>,
     current_chunk |-> unique_prefix,
     current_chunk_length |-> Len(unique_prefix)]

\* the test that diverts a field to segmentation
CsvIsOverlong(unique_prefix, field, value, max_len_) ==
    Len(value) > max_len_ - Len(unique_prefix) - Len(field \o ": ") - OVERHEAD_PADDING

XlsxIsOverlong(unique_prefix, field, sanitized_value, max_len_) ==
    Len(unique_prefix) + Len(field \o ": " \o sanitized_value) > max_len_ - OVERHEAD_PADDING

\* a test that looks at the item alone, not at what the buffer holds
BufferIsFullItemOnly(current_chunk_length, item_length, max_len_) ==
    item_length + 2 > max_len_

\* the test that closes the open buffer before an item is added
BufferIsFull(current_chunk_length, item_length, max_len_) ==
    current_chunk_length + item_length + 2 > max_len_

\* what closing the buffer emits
ClosedChunk(current_chunk) == TrimChunk(current_chunk)

\* a packer that reopens the buffer without the row's prefix
PackItemBarePrefix(st, unique_prefix, item, max_len_) ==
    IF BufferIsFull(st.current_chunk_length, Len(item), max_len_)
    THEN [chunks |-> Append(st.chunks, ClosedChunk(st.current_chunk)),
          current_chunk |-> item \o "; ",
          current_chunk_length |-> Len(item) + 2]
    ELSE [chunks |-> st.chunks,
          current_chunk |-> st.current_chunk \o item \o "; ",
          current_chunk_length |-> st.current_chunk_length + Len(item) + 2]

\* pack one item into the buffer, closing the buffer first when it is full
PackItem(st, unique_prefix, item, max_len_) ==
    IF BufferIsFull(st.current_chunk_length, Len(item), max_len_)
    THEN [chunks |-> Append(st.chunks, ClosedChunk(st.current_chunk)),
          current_chunk |-> unique_prefix \o item \o "; ",
          current_chunk_length |-> Len(unique_prefix) + Len(item) + 2]
    ELSE [chunks |-> st.chunks,
          current_chunk |-> st.current_chunk \o item \o "; ",
          current_chunk_length |-> st.current_chunk_length + Len(item) + 2]

\* the body of the CSV adapter's loop over (field, value)
CsvField(st, unique_prefix, field, raw_value, max_len_) ==
    LET value == _sanitize_value(raw_value)
    IN  IF CsvIsOverlong(unique_prefix, field, value, max_len_)
        THEN [st EXCEPT !.chunks =
                 st.chunks \o CsvSegmentLongField(unique_prefix, field, value, max_len_)]
        ELSE PackItem(st, unique_prefix, field \o ": " \o value, max_len_)

\* the flush after the last field
FlushBuffer(st, unique_prefix) ==
    IF st.current_chunk_length > Len(unique_prefix)
    THEN Append(st.chunks, ClosedChunk(st.current_chunk))
    ELSE st.chunks

RECURSIVE CsvFields(_, _, _, _, _, _)
CsvFields(st, k, header_, row_, unique_prefix, max_len_) ==
    IF k > Min(Len(header_), Len(row_)) THEN st          \* zip(header, row)
    ELSE CsvFields(CsvField(st, unique_prefix, header_[k], row_[k], max_len_),
                   k + 1, header_, row_, unique_prefix, max_len_)

\* a normalisation that truncates but does not pad
CsvNormalizeRowNoPad(row_, header_) ==
    IF Len(row_) > Len(header_) THEN SubSeq(row_, 1, Len(header_)) ELSE row_

\* the row padded or truncated to the header's width
CsvNormalizeRow(row_, header_) ==
    IF Len(row_) < Len(header_)
    THEN row_ \o [k \in 1..(Len(header_) - Len(row_)) |-> ""]
    ELSE IF Len(row_) > Len(header_) THEN SubSeq(row_, 1, Len(header_))
    ELSE row_

\* a fallback to the last column instead of the first
CsvUniqueIndexOrLast(header_, UNIQUE_KEY) ==
    IF Index(header_, UNIQUE_KEY) >= 0 THEN Index(header_, UNIQUE_KEY)
    ELSE Len(header_) - 1

CsvUniqueIndex(header_, UNIQUE_KEY) ==
    IF Index(header_, UNIQUE_KEY) >= 0 THEN Index(header_, UNIQUE_KEY) ELSE 0

\* i is enumerate()'s 0-based index of the data row
CsvUniqueId(row_, unique_index_, i_) ==
    IF unique_index_ < Len(row_) THEN row_[unique_index_ + 1]
    ELSE "ROW" \o ToString(i_ + 1)

CsvRowChunks(header_, row_, unique_prefix, max_len_) ==
    FlushBuffer(CsvFields(OpenBuffer(unique_prefix), 1, header_, row_,
                          unique_prefix, max_len_),
                unique_prefix)

(***************************************************************************)
(* The XLSX adapter's row loop.  A row is the tuple iter_rows yields: its  *)
(* cells are PyNone, PyTrue, PyFalse or a string.                          *)
(***************************************************************************)
\* str(cell) of a cell value that is not None
PyStr(cell) ==
    IF cell = PyTrue THEN "True" ELSE IF cell = PyFalse THEN "False" ELSE cell

get_column_letter(n) == CharAt("ABCDEFGHIJKLMNOPQRSTUVWXYZ", n)

\* _get_headers: first_row is the tuple of the sheet's first row, <<>> when the
\* sheet has none
_get_headers(first_row) ==
    [idx \in 1..Len(first_row) |->
        IF first_row[idx] # PyNone THEN PyStr(first_row[idx])
        ELSE "Column" \o ToString(idx)]

XlsxUniqueIndex(headers_, UNIQUE_KEY) ==
    IF UNIQUE_KEY # "" /\ headers_ # <<>> /\ Index(headers_, UNIQUE_KEY) >= 0
    THEN Index(headers_, UNIQUE_KEY)
    ELSE 0

\* the test that skips a row
IsEmptyRow(row_) == \A k \in 1..Len(row_) : row_[k] = PyNone \/ row_[k] = ""

_get_unique_id(row_, unique_index_, row_idx_) ==
    IF row_ # <<>> /\ unique_index_ < Len(row_) /\ row_[unique_index_ + 1] # PyNone
    THEN PyStr(row_[unique_index_ + 1])
    ELSE "ROW" \o ToString(row_idx_)

\* hyperlink is the cell's link target, NoLink when the cell has none
_process_cell_value(value, hyperlink) ==
    IF hyperlink # NoLink
    THEN (IF value = PyNone \/ value = PyFalse \/ value = "" THEN ""
          ELSE PyStr(value)) \o " [Link:" \o hyperlink \o "]"
    ELSE IF value \notin {PyNone, PyTrue, PyFalse} /\ StartsWith(value, "=IMAGE(")
    THEN "[Image]"
    ELSE IF value = PyTrue THEN "TRUE"
    ELSE IF value = PyFalse THEN "FALSE"
    ELSE value

\* the column name of 0-based col_idx: the header's, or the column letter
XlsxFieldName(headers_, col_idx) ==
    IF headers_ # <<>> /\ col_idx < Len(headers_) THEN headers_[col_idx + 1]
    ELSE get_column_letter(col_idx + 1)

XlsxSanitizedCell(processed_value) ==
    _sanitize_value(IF processed_value # PyNone THEN PyStr(processed_value) ELSE "")

\* the body of the XLSX adapter's loop over the row's cells; cell_value is
\* the value after merged-cell resolution
XlsxField(st, unique_prefix, field, cell_value, hyperlink, max_len_) ==
    LET sanitized_value == XlsxSanitizedCell(_process_cell_value(cell_value, hyperlink))
    IN  IF XlsxIsOverlong(unique_prefix, field, sanitized_value, max_len_)
        THEN [st EXCEPT !.chunks =
                 st.chunks \o XlsxSegmentLongField(unique_prefix, field, sanitized_value,
                                                   max_len_, OVERHEAD_PADDING)]
        ELSE PackItem(st, unique_prefix, field \o ": " \o sanitized_value, max_len_)

RECURSIVE XlsxFields(_, _, _, _, _, _)
XlsxFields(st, k, headers_, cells, unique_prefix, max_len_) ==
    IF k > Len(cells) THEN st                            \* enumerate(row)
    ELSE XlsxFields(XlsxField(st, unique_prefix, XlsxFieldName(headers_, k - 1),
                              cells[k], NoLink, max_len_),
                    k + 1, headers_, cells, unique_prefix, max_len_)

XlsxRowChunks(headers_, cells, unique_prefix, max_len_) ==
    FlushBuffer(XlsxFields(OpenBuffer(unique_prefix), 1, headers_, cells,
                           unique_prefix, max_len_),
                unique_prefix)

(***************************************************************************)
(* Inputs.                                                                 *)
(***************************************************************************)
\* a value with every character the sanitizer rewrites and a trailing space,
\* long enough to need ten and more segments
LongValue == "p;\n\r\tqqqqqqqqqqqqq "

\* the same without the carriage return: the CSV file is opened in text mode,
\* which hands the reader "\n" for every "\r"
CsvLongValue == "p;\n\tqqqqqqqqqqqqq "

CsvValues == {"", "A", CsvLongValue}
XlsxValues == {PyNone, "A", LongValue}

\* the sequences of at most two elements of S
UpToTwo(S) == {<<>>} \cup {<<a>> : a \in S} \cup {<<a, b>> : a \in S, b \in S}

CsvRows == UpToTwo(CsvValues)
\* a two-cell row ends at a cell that holds a value
XlsxRows == {r \in UpToTwo(XlsxValues) : Len(r) = 2 => r[2] # PyNone}

\* the first line of a CSV file, <<>> for a file without one
CsvHeaders == {<<>>, <<"A">>, <<"B", "A">>}

UniqueKeys == {"A", "Z"}
MaxLens == {1, 20, 36}

Extensions == [csv |-> {"csv", "txt"}, xlsx |-> {"xlsx", "txt"}]
SUPPORTED_EXTENSIONS == [csv |-> {"csv"}, xlsx |-> {"xlsx", "xlsm"}]

\* workbook.sheetnames of a workbook that loads
SheetNames == {<<>>, <<"S1">>, <<"S1", "S2">>}

\* a merged range is [min_row, min_col, max_row, max_col]; the sets of
\* ranges a sheet may list
MergedRangeSets == {{}}

(***************************************************************************)
(* State.                                                                  *)
(***************************************************************************)
VARIABLES
    adapter,            \* "csv" | "xlsx": the processor object's class
    file_extension,     \* self.file_extension
    unique_key,         \* self.unique_key
    max_len,            \* self.max_len
    workbook,           \* self.workbook: NoWorkbook (None), or the open workbook
    merged_cells_cache, \* self.merged_cells_cache: sheet name -> merged_map
    pc,                 \* where the running call is; "idle" between calls
    header,             \* header (CSV), headers (XLSX)
    unique_index,
    i,                  \* the enumerate() index of the row last read
    raw_row,            \* the row last read, as the reader yielded it
    row,                \* the row as the field loop saw it
    unique_prefix,      \* the prefix of the row last processed
    chunks,             \* the chunks of the row last processed
    content,            \* the chunks of the file (CSV) or sheet (XLSX) so far
    wb_content,         \* _extract_xlsx_text's content: markers and sheet texts
    sheets_left,        \* the sheet names still to visit
    sheet_name,
    sheet_rows,         \* the current sheet's rows read so far
    sheet_regions,      \* the current sheet's merged regions, as the file holds them
    nread,              \* rows read by the running call
    result,             \* how the last call ended
    _processors,        \* DocumentProcessorFactory._processors
    lookup,             \* the last get_processor call: its path and outcome
    registered          \* history: the classes registered, the latest last

obj_vars == <<adapter, file_extension, unique_key, max_len>>
handle_vars == <<workbook, merged_cells_cache>>
row_vars == <<header, unique_index, i, raw_row, row, unique_prefix, chunks, content>>
sheet_vars == <<wb_content, sheets_left, sheet_name, sheet_rows, sheet_regions>>
factory_vars == <<_processors, lookup, registered>>
vars == <<obj_vars, handle_vars, pc, row_vars, sheet_vars, nread, result, factory_vars>>

\* self.workbook = None, and the handle openpyxl.load_workbook returns
NoWorkbook == [open |-> FALSE, sheetnames |-> <<>>]
OpenWorkbook(names) == [open |-> TRUE, sheetnames |-> names]

NoResult == [kind |-> "none", value |-> "", cause |-> ""]
Returned(kind, value) == [kind |-> kind, value |-> value, cause |-> ""]
Raised(error, cause) == [kind |-> "raise", value |-> error, cause |-> cause]

NoLookup == [path |-> "", kind |-> "none", value |-> "", constructed |-> <<>>]

\* the locals of a call that has not read anything yet
FreshLocals ==
    /\ header = <<>>
    /\ unique_index = 0
    /\ i = 0
    /\ raw_row = <<>>
    /\ row = <<>>
    /\ unique_prefix = ""
    /\ chunks = <<>>
    /\ content = <<>>
    /\ wb_content = <<>>
    /\ sheets_left = <<>>
    /\ sheet_name = ""
    /\ sheet_rows = <<>>
    /\ sheet_regions = {}
    /\ nread = 0

\* a processor object as its constructor leaves it
Init ==
    /\ adapter \in {"csv", "xlsx"}
    /\ file_extension \in Extensions[adapter]
    /\ unique_key \in UniqueKeys
    /\ max_len \in MaxLens
    /\ workbook = NoWorkbook
    /\ merged_cells_cache = <<>>
    /\ pc = "idle"
    /\ FreshLocals
    /\ result = NoResult
    /\ _processors = <<>>
    /\ lookup = NoLookup
    /\ registered = <<>>

(***************************************************************************)
(* CSVProcessor.                                                           *)
(***************************************************************************)
ResetLocals ==
    /\ header' = <<>>
    /\ unique_index' = 0
    /\ i' = 0
    /\ raw_row' = <<>>
    /\ row' = <<>>
    /\ unique_prefix' = ""
    /\ chunks' = <<>>
    /\ content' = <<>>
    /\ wb_content' = <<>>
    /\ sheets_left' = <<>>
    /\ sheet_name' = ""
    /\ sheet_rows' = <<>>
    /\ sheet_regions' = {}
    /\ nread' = 0

ResetLocalsButSheets ==
    /\ header' = <<>>
    /\ unique_index' = 0
    /\ i' = 0
    /\ raw_row' = <<>>
    /\ row' = <<>>
    /\ unique_prefix' = ""
    /\ chunks' = <<>>
    /\ content' = <<>>
    /\ wb_content' = <<>>
    /\ sheet_name' = ""
    /\ sheet_rows' = <<>>
    /\ sheet_regions' = {}
    /\ nread' = 0

\* extract_text up to the first data row: the file is opened and its first
\* line read; h is that line
CsvExtractText ==
    /\ pc = "idle"
    /\ adapter = "csv"
    /\ UNCHANGED <<obj_vars, handle_vars, factory_vars>>
    /\ \/ /\ file_extension # "csv"             \* falls off the if: returns None
          /\ result' = Returned("None", "")
          /\ pc' = "idle"
          /\ ResetLocals
       \/ /\ file_extension = "csv"
          /\ \E h \in CsvHeaders :
                IF h = <<>>
                THEN /\ result' = Raised("FileCorruptionError", "ValueError")
                     /\ pc' = "idle"
                     /\ ResetLocals
                ELSE /\ result' = NoResult
                     /\ pc' = "csv_rows"
                     /\ header' = h
                     /\ unique_index' = CsvUniqueIndex(h, unique_key)
                     /\ i' = 0
                     /\ raw_row' = <<>>
                     /\ row' = <<>>
                     /\ unique_prefix' = ""
                     /\ chunks' = <<>>
                     /\ content' = <<>>
                     /\ wb_content' = <<>>
                     /\ sheets_left' = <<>>
                     /\ sheet_name' = ""
                     /\ sheet_rows' = <<>>
                     /\ sheet_regions' = {}
                     /\ nread' = 0

\* one pass of the loop over the reader's rows; r is the row read
CsvRow ==
    /\ pc = "csv_rows"
    /\ nread < MaxRows
    /\ \E r \in CsvRows :
          LET normalized == CsvNormalizeRow(r, header)
              unique_id == CsvUniqueId(normalized, unique_index, nread)
              prefix == UniquePrefix(unique_id)
              row_chunks == CsvRowChunks(header, normalized, prefix, max_len)
          IN  /\ i' = nread
              /\ nread' = nread + 1
              /\ raw_row' = r
              /\ row' = normalized
              /\ unique_prefix' = prefix
              /\ chunks' = row_chunks
              /\ content' = content \o row_chunks
    /\ UNCHANGED <<obj_vars, handle_vars, factory_vars, pc, header, unique_index,
                   sheet_vars, result>>

\* the reader is exhausted: the chunks are joined and returned (the call's
\* locals end with it)
CsvReturn ==
    /\ pc = "csv_rows"
    /\ result' = Returned("text", Join(content))
    /\ pc' = "idle"
    /\ ResetLocals
    /\ UNCHANGED <<obj_vars, handle_vars, factory_vars>>

\* reading the next row fails: the except clause wraps the fault
CsvFault ==
    /\ pc = "csv_rows"
    /\ result' = Raised("FileCorruptionError", "csv.Error")
    /\ pc' = "idle"
    /\ ResetLocals
    /\ UNCHANGED <<obj_vars, handle_vars, factory_vars>>

CsvExtractMetadata ==
    /\ pc = "idle"
    /\ adapter = "csv"
    /\ result' = IF file_extension = "csv" THEN Returned("meta", "1")
                 ELSE Returned("None", "")
    /\ ResetLocals
    /\ UNCHANGED <<obj_vars, handle_vars, factory_vars, pc>>

(***************************************************************************)
(* XLSXProcessor.                                                          *)
(***************************************************************************)
\* _add_merged_range over every range: each cell of a range but its top-left
\* one maps to the top-left one
MergedMap(ranges) ==
    LET cells(rg) == {<<r, c>> : r \in rg.min_row..rg.max_row,
                                 c \in rg.min_col..rg.max_col}
                     \ {<<rg.min_row, rg.min_col>>}
        keys == UNION {cells(rg) : rg \in ranges}
    IN  [cell \in keys |->
            LET rg == CHOOSE g \in ranges : cell \in cells(g)
            IN  <<rg.min_row, rg.min_col>>]

\* sheet.cell(row, column).value on the rows read so far
CellValue(rows, r, c) ==
    IF r >= 1 /\ r <= Len(rows) /\ c >= 1 /\ c <= Len(rows[r]) THEN rows[r][c]
    ELSE PyNone

\* the row's values after merged-cell resolution
ResolveMerged(rows, merged_map, row_idx, r) ==
    [k \in 1..Len(r) |->
        IF <<row_idx, k>> \in DOMAIN merged_map
        THEN CellValue(rows, merged_map[<<row_idx, k>>][1], merged_map[<<row_idx, k>>][2])
        ELSE r[k]]

\* the finally clause of _extract_xlsx_text
ReleaseWorkbook ==
    /\ workbook' = NoWorkbook
    /\ merged_cells_cache' = <<>>

\* one pass of _process_sheet's loop over the rows: r is row row_idx, rows the
\* sheet's rows up to and including it
XlsxProcessRow(rows, r, row_idx, headers_, uidx, merged_map, sheet_content) ==
    /\ i' = row_idx
    /\ raw_row' = r
    /\ IF IsEmptyRow(r)
       THEN /\ row' = r                         \* continue
            /\ unique_prefix' = ""
            /\ chunks' = <<>>
            /\ content' = sheet_content
       ELSE LET prefix == UniquePrefix(_get_unique_id(r, uidx, row_idx))
                cells == ResolveMerged(rows, merged_map, row_idx, r)
                row_content == XlsxRowChunks(headers_, cells, prefix, max_len)
            IN  /\ row' = cells
                /\ unique_prefix' = prefix
                /\ chunks' = row_content
                /\ content' = sheet_content \o row_content

\* extract_text up to the loop over the sheets: _load_workbook
XlsxExtractText ==
    /\ pc = "idle"
    /\ adapter = "xlsx"
    /\ UNCHANGED <<obj_vars, factory_vars>>
    /\ ResetLocalsButSheets
    /\ \/ /\ file_extension \notin SUPPORTED_EXTENSIONS.xlsx  \* returns None
          /\ result' = Returned("None", "")
          /\ pc' = "idle"
          /\ sheets_left' = <<>>
          /\ UNCHANGED handle_vars
       \/ /\ file_extension \in SUPPORTED_EXTENSIONS.xlsx
          /\ workbook # NoWorkbook                  \* already loaded: reused
          /\ result' = NoResult
          /\ pc' = "xlsx_sheets"
          /\ sheets_left' = workbook.sheetnames
          /\ UNCHANGED handle_vars
       \/ /\ file_extension \in SUPPORTED_EXTENSIONS.xlsx
          /\ workbook = NoWorkbook
          /\ \E names \in SheetNames :
                /\ workbook' = OpenWorkbook(names)
                /\ sheets_left' = names
          /\ result' = NoResult
          /\ pc' = "xlsx_sheets"
          /\ UNCHANGED merged_cells_cache
       \/ /\ file_extension \in SUPPORTED_EXTENSIONS.xlsx
          /\ workbook = NoWorkbook                  \* load_workbook raises
          /\ result' = Raised("FileCorruptionError", "FileCorruptionError")
          /\ pc' = "idle"
          /\ sheets_left' = <<>>
          /\ ReleaseWorkbook

\* the ranges _load_merged_cells iterates over: the sheet's merged regions
\* when the worksheet object has a merged_cells or a merged_cell_ranges
\* attribute, none when hasattr finds neither
ExposedRanges(regions, has_merged_cells, has_merged_cell_ranges) ==
    (IF has_merged_cells THEN regions ELSE {})
        \cup (IF has_merged_cell_ranges THEN regions ELSE {})

\* the loop over the sheets reaches a sheet: _load_merged_cells, then
\* _process_sheet up to and including its first row, which _get_headers and
\* iter_rows both read; first_row is <<>> for a sheet without rows, and
\* region_sets are the sets of merged regions the sheet may hold
XlsxSheetOver(region_sets) ==
    /\ pc = "xlsx_sheets"
    /\ sheets_left # <<>>
    /\ \E regions \in region_sets, has_merged_cells \in BOOLEAN,
          has_merged_cell_ranges \in BOOLEAN, first_row \in XlsxRows :
          LET name == Head(sheets_left)
              ranges == ExposedRanges(regions, has_merged_cells, has_merged_cell_ranges)
              cache == IF name \in DOMAIN merged_cells_cache THEN merged_cells_cache
                       ELSE merged_cells_cache @@ (name :> MergedMap(ranges))
              headers_ == _get_headers(first_row)
              uidx == XlsxUniqueIndex(headers_, unique_key)
          IN  /\ first_row # <<>> => nread < MaxRows
              /\ sheet_name' = name
              /\ sheet_regions' = regions
              /\ merged_cells_cache' = cache
              /\ header' = headers_
              /\ unique_index' = uidx
              /\ IF first_row = <<>>
                 THEN /\ sheet_rows' = <<>>
                      /\ nread' = nread
                      /\ i' = 0
                      /\ raw_row' = <<>>
                      /\ row' = <<>>
                      /\ unique_prefix' = ""
                      /\ chunks' = <<>>
                      /\ content' = <<>>
                 ELSE /\ sheet_rows' = <<first_row>>
                      /\ nread' = nread + 1
                      /\ XlsxProcessRow(<<first_row>>, first_row, 1, headers_, uidx,
                                        cache[name], <<>>)
    /\ pc' = "xlsx_rows"
    /\ UNCHANGED <<obj_vars, factory_vars, workbook, wb_content, sheets_left, result>>

XlsxSheet == XlsxSheetOver(MergedRangeSets)

\* one more pass of _process_sheet's loop: r is the next row of the sheet
XlsxRow ==
    /\ pc = "xlsx_rows"
    /\ sheet_rows # <<>>
    /\ nread < MaxRows
    /\ \E r \in XlsxRows :
          /\ sheet_rows' = Append(sheet_rows, r)
          /\ XlsxProcessRow(Append(sheet_rows, r), r, Len(sheet_rows) + 1, header,
                            unique_index, merged_cells_cache[sheet_name], content)
    /\ nread' = nread + 1
    /\ UNCHANGED <<obj_vars, factory_vars, handle_vars, pc, header, unique_index,
                   wb_content, sheets_left, sheet_name, sheet_regions, result>>

\* the sheet's rows are exhausted: _process_sheet returns and the sheet's
\* text, if any, is appended under its marker
XlsxSheetEnd ==
    /\ pc = "xlsx_rows"
    /\ LET sheet_content == Join(content)
       IN  wb_content' = IF sheet_content # ""
                         THEN wb_content \o <<"=== Sheet: " \o sheet_name \o " ===",
                                              sheet_content>>
                         ELSE wb_content
    /\ sheets_left' = Tail(sheets_left)
    /\ pc' = "xlsx_sheets"
    /\ UNCHANGED <<obj_vars, factory_vars, handle_vars, row_vars, sheet_name,
                   sheet_rows, sheet_regions, nread, result>>

\* every sheet is done: the text is returned and the finally clause runs
XlsxReturn ==
    /\ pc = "xlsx_sheets"
    /\ sheets_left = <<>>
    /\ result' = Returned("text", Join(wb_content))
    /\ pc' = "idle"
    /\ ReleaseWorkbook
    /\ ResetLocals
    /\ UNCHANGED <<obj_vars, factory_vars>>

\* a fault while a sheet is processed: the except clause wraps it and the
\* finally clause runs
XlsxFault ==
    /\ pc \in {"xlsx_sheets", "xlsx_rows"}
    /\ result' = Raised("FileCorruptionError", "Exception")
    /\ pc' = "idle"
    /\ ReleaseWorkbook
    /\ ResetLocals
    /\ UNCHANGED <<obj_vars, factory_vars>>

\* extract_metadata, whole: _load_workbook, then the meta dict is built from
\* the workbook; nothing closes the workbook
XlsxExtractMetadata ==
    /\ pc = "idle"
    /\ adapter = "xlsx"
    /\ ResetLocals
    /\ UNCHANGED <<obj_vars, factory_vars, pc, merged_cells_cache>>
    /\ \/ /\ workbook = NoWorkbook                  \* load_workbook raises
          /\ workbook' = NoWorkbook
          /\ result' = Raised("FileCorruptionError", "FileCorruptionError")
       \/ \E names \in SheetNames :
             /\ workbook' = IF workbook = NoWorkbook THEN OpenWorkbook(names)
                            ELSE workbook
             /\ workbook # NoWorkbook => names = workbook.sheetnames
             /\ \/ result' = Returned("meta", ToString(Len(names)))
                \/ result' = Raised("FileCorruptionError", "Exception")

(***************************************************************************)
(* DocumentProcessor and DocumentProcessorFactory.                         *)
(***************************************************************************)
Classes == {"CSVProcessor", "XLSXProcessor"}

\* the class attribute each adapter declares in its own body
DeclaredExtensions ==
    [CSVProcessor |-> <<"csv">>, XLSXProcessor |-> <<"xlsx", "xlsm">>]

\* DocumentProcessor.SUPPORT_EXTENSIONS, which no adapter overrides: the
\* adapters name their lists SUPPORTED_EXTENSIONS
BaseSupportExtensions == <<"csv", "xlsx", "xls">>

\* processor_class.SUPPORT_EXTENSIONS, by attribute lookup through the base
SUPPORT_EXTENSIONS(processor_class) == BaseSupportExtensions

\* the positional parameters after self of each adapter's __init__
InitParameters ==
    [CSVProcessor |-> <<"file_path", "unique_key", "max_len">>,
     XLSXProcessor |-> <<"file_path", "unique_key", "max_len">>]

Range(f) == {f[x] : x \in DOMAIN f}

\* str.lower() on the letters the paths use
Lower(s) ==
    LET upper == "CSVXLM"
        lower == "csvxlm"
        low(ch) == IF \E k \in 1..Len(upper) : CharAt(upper, k) = ch
                   THEN CharAt(lower, CHOOSE k \in 1..Len(upper) : CharAt(upper, k) = ch)
                   ELSE ch
        RECURSIVE map(_)
        map(t) == IF t = "" THEN "" ELSE low(CharAt(t, 1)) \o map(SubSeq(t, 2, Len(t)))
    IN  map(s)

\* str.rfind(ch): the 0-based index of the last occurrence, -1 when none
RECURSIVE RFind(_, _)
RFind(s, ch) ==
    IF s = "" THEN -1
    ELSE IF CharAt(s, Len(s)) = ch THEN Len(s) - 1
    ELSE RFind(SubSeq(s, 1, Len(s) - 1), ch)

\* os.path.splitext(path)[1]: from the last dot of the last path component,
\* unless only dots precede it there
SplitExt(path) ==
    LET sepIndex == RFind(path, "/")
        dotIndex == RFind(path, ".")
    IN  IF dotIndex > sepIndex
           /\ \E k \in (sepIndex + 1)..(dotIndex - 1) : CharAt(path, k + 1) # "."
        THEN SubSeq(path, dotIndex + 1, Len(path))
        ELSE ""

\* os.path.splitext(file_path)[1][1:].lower()
Extension(file_path) ==
    LET ext == SplitExt(file_path) IN Lower(SubSeq(ext, 2, Len(ext)))

Paths ==
    {dir \o base \o ext :
        dir \in {"", "d.x/"},
        base \in {"", ".", "f"},
        ext \in {"", ".", ".csv", ".CSV", ".Xlsx", ".xlsm", ".xls", ".txt"}}

\* register_processor(processor_class)
RegisterProcessor ==
    \E processor_class \in Classes :
       /\ _processors' =
             [ext \in DOMAIN _processors \cup Range(SUPPORT_EXTENSIONS(processor_class)) |->
                 IF ext \in Range(SUPPORT_EXTENSIONS(processor_class))
                 THEN processor_class
                 ELSE _processors[ext]]
       /\ registered' =
             Append(SelectSeq(registered, LAMBDA c : c # processor_class), processor_class)
       /\ UNCHANGED <<obj_vars, handle_vars, pc, row_vars, sheet_vars, nread, result,
                      lookup>>

\* processor_class(file_path): one positional argument for the parameters of
\* __init__; Python raises TypeError before the body runs when they differ
Construct(processor_class, file_path) ==
    IF Len(InitParameters[processor_class]) = 1
    THEN [path |-> file_path, kind |-> "return", value |-> processor_class,
          constructed |-> <<processor_class>>]
    ELSE [path |-> file_path, kind |-> "raise", value |-> "TypeError",
          constructed |-> <<processor_class>>]

\* a lookup that indexes the registry without testing for the key first
GetProcessorResultUnchecked(registry, file_path) ==
    LET extension == Extension(file_path)
    IN  IF extension = ""
        THEN [path |-> file_path, kind |-> "raise", value |-> "UnsupportedFormatError",
              constructed |-> <<>>]
        ELSE IF extension \notin DOMAIN registry
        THEN [path |-> file_path, kind |-> "raise", value |-> "KeyError",
              constructed |-> <<>>]
        ELSE Construct(registry[extension], file_path)

\* get_processor(file_path)
GetProcessorResult(registry, file_path) ==
    LET extension == Extension(file_path)
    IN  IF extension = ""
        THEN [path |-> file_path, kind |-> "raise", value |-> "UnsupportedFormatError",
              constructed |-> <<>>]
        ELSE IF extension \notin DOMAIN registry
        THEN [path |-> file_path, kind |-> "raise", value |-> "UnsupportedFormatError",
              constructed |-> <<>>]
        ELSE Construct(registry[extension], file_path)

GetProcessor ==
    \E file_path \in Paths :
       /\ lookup' = GetProcessorResult(_processors, file_path)
       /\ UNCHANGED <<obj_vars, handle_vars, pc, row_vars, sheet_vars, nread, result,
                      _processors, registered>>

(***************************************************************************)
(* Specifications.  Spec: one processor object and the calls made on it.   *)
(* SpecFactory: the factory's registry and lookups.                        *)
(***************************************************************************)
Next ==
    \/ CsvExtractText
    \/ CsvRow
    \/ CsvReturn
    \/ CsvFault
    \/ CsvExtractMetadata
    \/ XlsxExtractText
    \/ XlsxSheet
    \/ XlsxRow
    \/ XlsxSheetEnd
    \/ XlsxReturn
    \/ XlsxFault
    \/ XlsxExtractMetadata

Spec == Init /\ [][Next]_vars

InitFactory ==
    /\ adapter = "csv"
    /\ file_extension = "csv"
    /\ unique_key = "A"
    /\ max_len = 40
    /\ workbook = NoWorkbook
    /\ merged_cells_cache = <<>>
    /\ pc = "idle"
    /\ FreshLocals
    /\ result = NoResult
    /\ _processors = <<>>
    /\ lookup = NoLookup
    /\ registered = <<>>

NextFactory ==
    \/ RegisterProcessor
    \/ GetProcessor

SpecFactory == InitFactory /\ [][NextFactory]_vars

(***************************************************************************)
(* SpecMerged: one XLSX processor and extract_text calls on workbooks      *)
(* whose sheets hold merged regions.                                       *)
(***************************************************************************)
\* A1:A2, A2:B2 and A1:B1
MergedRegionSets ==
    {{},
     {[min_row |-> 1, min_col |-> 1, max_row |-> 2, max_col |-> 1]},
     {[min_row |-> 2, min_col |-> 1, max_row |-> 2, max_col |-> 2]},
     {[min_row |-> 1, min_col |-> 1, max_row |-> 1, max_col |-> 2]}}

InitMerged ==
    /\ adapter = "xlsx"
    /\ file_extension = "xlsx"
    /\ unique_key = "A"
    /\ max_len = 36
    /\ workbook = NoWorkbook
    /\ merged_cells_cache = <<>>
    /\ pc = "idle"
    /\ FreshLocals
    /\ result = NoResult
    /\ _processors = <<>>
    /\ lookup = NoLookup
    /\ registered = <<>>

XlsxSheetMerged == XlsxSheetOver(MergedRegionSets)

NextMerged ==
    \/ XlsxExtractText
    \/ XlsxSheetMerged
    \/ XlsxRow
    \/ XlsxSheetEnd
    \/ XlsxReturn
    \/ XlsxFault

SpecMerged == InitMerged /\ [][NextMerged]_vars

(***************************************************************************)
(* Reading the emitted text back.  These operators look only at the chunks *)
(* and at the row the loop was given.                                      *)
(***************************************************************************)
\* a row has been processed by the field loop and its chunks are in chunks
RowProcessed == pc \in {"csv_rows", "xlsx_rows"} /\ unique_prefix # ""

\* the 1-based position of the first occurrence of sub in s at or after k, 0 if none
RECURSIVE FindFrom(_, _, _)
FindFrom(s, sub, k) ==
    IF k + Len(sub) - 1 > Len(s) THEN 0
    ELSE IF SubSeq(s, k, k + Len(sub) - 1) = sub THEN k
    ELSE FindFrom(s, sub, k + 1)

Contains(s, sub) == FindFrom(s, sub, 1) # 0

\* s.split(sep)
RECURSIVE Split(_, _)
Split(s, sep) ==
    LET at == FindFrom(s, sep, 1)
    IN  IF at = 0 THEN <<s>>
        ELSE <<SubSeq(s, 1, at - 1)>> \o Split(SubSeq(s, at + Len(sep), Len(s)), sep)

\* the field names and sanitized values the loop of the row last processed ran over
FieldCount == IF adapter = "csv" THEN Min(Len(header), Len(row)) ELSE Len(row)

FieldName(k) == IF adapter = "csv" THEN header[k] ELSE XlsxFieldName(header, k - 1)

FieldValue(k) ==
    IF adapter = "csv" THEN _sanitize_value(row[k])
    ELSE XlsxSanitizedCell(_process_cell_value(row[k], NoLink))

\* field k was handed to _segment_long_field
Diverted(k) ==
    IF adapter = "csv" THEN CsvIsOverlong(unique_prefix, FieldName(k), FieldValue(k), max_len)
    ELSE XlsxIsOverlong(unique_prefix, FieldName(k), FieldValue(k), max_len)

\* no other field of the row has field k's name
NameIsUnique(k) == \A j \in 1..FieldCount : j # k => FieldName(j) # FieldName(k)

\* the text of a chunk after the row's prefix
Body(chunk) == SubSeq(chunk, Len(unique_prefix) + 1, Len(chunk))

IsSegmentOf(chunk, field) == StartsWith(chunk, unique_prefix \o field \o " [Part")

IsSegmentChunk(chunk) == \E k \in 1..FieldCount : IsSegmentOf(chunk, FieldName(k))

\* the chunks of the row that are segments of the field, in emission order
SegmentsOf(field) == SelectSeq(chunks, LAMBDA c : IsSegmentOf(c, field))

\* the chunks of the row that are packed buffers
PackedChunks == SelectSeq(chunks, LAMBDA c : ~IsSegmentChunk(c))

\* the items of a packed chunk
Items(chunk) == Split(Body(chunk), "; ")

RECURSIVE Concat(_)
Concat(parts) == IF parts = <<>> THEN "" ELSE parts[1] \o Concat(Tail(parts))

\* the value slices of the field's segments, when segment n carries header Part<n>
SegmentSlices(field) ==
    LET segs == SegmentsOf(field)
    IN  [n \in 1..Len(segs) |->
            SubSeq(segs[n], Len(unique_prefix \o SegmentHeader(field, n)) + 1,
                   Len(segs[n]))]

(***************************************************************************)
(* C1.  Every chunk emitted for a row, packed or segment, starts with the  *)
(* prefix "[ID:<id>] " built for that row.                                 *)
(***************************************************************************)
C1_EveryChunkStartsWithPrefix ==
    RowProcessed =>
        /\ StartsWith(unique_prefix, "[ID:")
        /\ SubSeq(unique_prefix, Len(unique_prefix) - 1, Len(unique_prefix)) = "] "
        /\ \A n \in 1..Len(chunks) : StartsWith(chunks[n], unique_prefix)

\* a row that gave both a packed chunk and a segment chunk
C1_Witness ==
    /\ RowProcessed
    /\ Len(PackedChunks) >= 1
    /\ \E n \in 1..Len(chunks) : IsSegmentChunk(chunks[n])

(***************************************************************************)
(* C2.  Every packed (non-segment) chunk is at most max_len characters     *)
(* long, and a buffer is never closed while it holds only the prefix:      *)
(* every packed chunk holds an item after the prefix.                      *)
(***************************************************************************)
C2_PackedChunkWithinMaxLen ==
    RowProcessed =>
        LET packed == PackedChunks
        IN  \A n \in 1..Len(packed) :
                /\ Len(packed[n]) <= max_len
                /\ Len(packed[n]) > Len(unique_prefix)

\* a row whose first buffer was closed because the next item did not fit
C2_Witness ==
    /\ RowProcessed
    /\ Len(PackedChunks) >= 2
    /\ Len(PackedChunks[1]) + Len(PackedChunks[2]) - Len(unique_prefix) + 2 > max_len

(***************************************************************************)
(* C3.  The segments of a field handed to _segment_long_field are numbered *)
(* Part1, Part2, ... in order, each carries at least one character of the  *)
(* value, and their slices concatenate to the whole sanitized value; also  *)
(* when max_len is smaller than the prefix plus the segment header.        *)
(***************************************************************************)
C3_SegmentsRebuildValue ==
    RowProcessed =>
        \A k \in 1..FieldCount :
            (Diverted(k) /\ NameIsUnique(k)) =>
                LET field == FieldName(k)
                    segs == SegmentsOf(field)
                    slices == SegmentSlices(field)
                IN  /\ \A n \in 1..Len(segs) :
                          /\ StartsWith(segs[n], unique_prefix \o SegmentHeader(field, n))
                          /\ Len(slices[n]) >= 1
                    /\ Concat(slices) = FieldValue(k)

\* a field cut into ten segments or more with max_len below prefix plus header
C3_Witness ==
    /\ RowProcessed
    /\ \E k \in 1..FieldCount :
          /\ Diverted(k)
          /\ NameIsUnique(k)
          /\ Len(SegmentsOf(FieldName(k))) >= 10
          /\ max_len < Len(unique_prefix \o SegmentHeader(FieldName(k), 1))

(***************************************************************************)
(* C4.  Every field's complete sanitized value is in the output: whole,    *)
(* as the text after "<field>: " of an item of exactly one packed chunk,   *)
(* or as segments that concatenate to it.  Nothing of a value is lost when *)
(* a buffer is closed or flushed.  (An empty value counts as whole also    *)
(* when the trim took the space after the colon.)                          *)
(***************************************************************************)
PackedWhole(k) ==
    LET wanted == IF FieldValue(k) = ""
                  THEN {FieldName(k) \o ": ", FieldName(k) \o ":"}
                  ELSE {FieldName(k) \o ": " \o FieldValue(k)}
        holding == {n \in 1..Len(PackedChunks) :
                       \E m \in 1..Len(Items(PackedChunks[n])) :
                           Items(PackedChunks[n])[m] \in wanted}
    IN  Cardinality(holding) = 1

SegmentedWhole(k) ==
    /\ \A n \in 1..Len(SegmentsOf(FieldName(k))) :
          StartsWith(SegmentsOf(FieldName(k))[n],
                     unique_prefix \o SegmentHeader(FieldName(k), n))
    /\ Concat(SegmentSlices(FieldName(k))) = FieldValue(k)

C4_NoValueCharacterLost ==
    RowProcessed =>
        \A k \in 1..FieldCount :
            NameIsUnique(k) =>
                IF Diverted(k) THEN SegmentedWhole(k) ELSE PackedWhole(k)

(***************************************************************************)
(* C5.  No chunk holds a raw newline, carriage return or tab, and every    *)
(* ";" of a chunk is an item separator the packer inserted, whether the    *)
(* cell value is embedded as a field value or as the row ID of the prefix. *)
(***************************************************************************)
\* the number of occurrences of the one-character string ch in s
RECURSIVE Count(_, _)
Count(s, ch) ==
    IF s = "" THEN 0
    ELSE (IF CharAt(s, 1) = ch THEN 1 ELSE 0) + Count(SubSeq(s, 2, Len(s)), ch)

C5_NoRawDelimiterInChunk ==
    RowProcessed =>
        \A n \in 1..Len(chunks) :
            /\ Count(chunks[n], "\n") = 0
            /\ Count(chunks[n], "\r") = 0
            /\ Count(chunks[n], "\t") = 0
            /\ Count(chunks[n], ";") =
                  IF IsSegmentChunk(chunks[n]) THEN 0
                  ELSE Len(Items(chunks[n])) - 1

(***************************************************************************)
(* Labels: the field names that occur in a row's chunks.                   *)
(***************************************************************************)
\* the text of s before the first occurrence of sub (sub occurs in s)
Before(s, sub) == SubSeq(s, 1, FindFrom(s, sub, 1) - 1)

HasSegmentHeader(chunk) == Contains(Body(chunk), " [Part")

\* the field names a chunk carries: a segment's one, or one per item
ChunkLabels(chunk) ==
    IF HasSegmentHeader(chunk) THEN {Before(Body(chunk), " [Part")}
    ELSE LET items == Items(chunk)
         IN  {Before(items[m], ":") : m \in 1..Len(items)}

Labels == UNION {ChunkLabels(chunks[n]) : n \in 1..Len(chunks)}

RECURSIVE ItemCountFrom(_)
ItemCountFrom(n) ==
    IF n > Len(chunks) THEN 0
    ELSE (IF HasSegmentHeader(chunks[n]) THEN 0 ELSE Len(Items(chunks[n])))
         + ItemCountFrom(n + 1)

\* the number of items in the row's packed chunks
ItemCount == ItemCountFrom(1)

C7_RegistryFollowsDeclaredExtensions ==
    \A e \in {"csv", "xlsx", "xlsm", "xls"} :
        LET declarers == {n \in 1..Len(registered) :
                             e \in Range(DeclaredExtensions[registered[n]])}
        IN  IF declarers = {} THEN e \notin DOMAIN _processors
            ELSE /\ e \in DOMAIN _processors
                 /\ _processors[e] =
                       registered[CHOOSE n \in declarers : \A m \in declarers : m <= n]

(***************************************************************************)
(* The extension of a path as the specification words it: the text after   *)
(* the final "." of the path, lower-cased; none when the path has no ".".  *)
(***************************************************************************)
TextAfterFinalDot(path) ==
    IF RFind(path, ".") = -1 THEN ""
    ELSE Lower(SubSeq(path, RFind(path, ".") + 2, Len(path)))

(***************************************************************************)
(* C8.  get_processor on a path whose lower-cased extension has a          *)
(* registered class constructs and returns an instance of that class,      *)
(* without raising.                                                        *)
(***************************************************************************)
C8_RegisteredExtensionReturnsInstance ==
    [][(lookup' # lookup /\ TextAfterFinalDot(lookup'.path) \in DOMAIN _processors)
          => /\ lookup'.kind = "return"
             /\ lookup'.value = _processors[TextAfterFinalDot(lookup'.path)]
             /\ lookup'.constructed = <<lookup'.value>>]_vars

(***************************************************************************)
(* C9.  get_processor on a path with no extension, or with an extension no *)
(* class is registered for, raises UnsupportedFormatError, calls no        *)
(* constructor and leaves the registry as it was.                          *)
(***************************************************************************)
C9_UnsupportedPathRaisesAndConstructsNothing ==
    [][(lookup' # lookup /\ TextAfterFinalDot(lookup'.path) \notin DOMAIN _processors)
          => /\ lookup'.kind = "raise"
             /\ lookup'.value = "UnsupportedFormatError"
             /\ lookup'.constructed = <<>>
             /\ _processors' = _processors]_vars

\* a lookup of a ".txt" path against a registry that has entries
C9_Witness ==
    /\ DOMAIN _processors # {}
    /\ TextAfterFinalDot(lookup.path) = "txt"
    /\ lookup.kind = "raise"
    /\ lookup.value = "UnsupportedFormatError"

(***************************************************************************)
(* C10.  Between calls on an XLSX processor (every call made so far has    *)
(* returned or raised) the processor holds no open workbook and its        *)
(* merged-cell cache is empty.                                             *)
(***************************************************************************)
C10_NoWorkbookHeldBetweenCalls ==
    (adapter = "xlsx" /\ pc = "idle") =>
        /\ workbook = NoWorkbook
        /\ DOMAIN merged_cells_cache = {}

(***************************************************************************)
(* C16, as stated.  In both adapters, for every segment n of an oversized  *)
(* field with max_len > len(prefix) + len("<field> [Part<n>]: "), the      *)
(* segment chunk is at most max_len long and, when it is not the field's   *)
(* last segment, exactly max_len long.                                     *)
(***************************************************************************)
C16_SegmentsFillMaxLen ==
    RowProcessed =>
        \A k \in 1..FieldCount :
            (Diverted(k) /\ NameIsUnique(k)) =>
                LET segs == SegmentsOf(FieldName(k))
                IN  \A n \in 1..Len(segs) :
                        max_len > Len(unique_prefix \o SegmentHeader(FieldName(k), n)) =>
                            /\ Len(segs[n]) <= max_len
                            /\ n < Len(segs) => Len(segs[n]) = max_len

(***************************************************************************)
(* C16, amended.  Under the same condition every segment chunk is at most  *)
(* max_len long.  A non-final segment chunk of the CSV adapter is exactly  *)
(* max_len long; one of the XLSX adapter, which keeps OVERHEAD_PADDING     *)
(* characters free, is max_len - OVERHEAD_PADDING long, or prefix plus     *)
(* header plus one character when that leaves no room for the value.       *)
(***************************************************************************)
C16_SegmentLengthPerAdapter ==
    RowProcessed =>
        \A k \in 1..FieldCount :
            (Diverted(k) /\ NameIsUnique(k)) =>
                LET segs == SegmentsOf(FieldName(k))
                    lead(n) == Len(unique_prefix \o SegmentHeader(FieldName(k), n))
                    kept == IF adapter = "xlsx" THEN OVERHEAD_PADDING ELSE 0
                IN  \A n \in 1..Len(segs) :
                        max_len > lead(n) =>
                            /\ Len(segs[n]) <= max_len
                            /\ n < Len(segs) =>
                                  Len(segs[n]) = IF max_len - kept > lead(n)
                                                 THEN max_len - kept
                                                 ELSE lead(n) + 1

\* an XLSX field cut into segments with room left for more than one character
C16_Witness ==
    /\ RowProcessed
    /\ adapter = "xlsx"
    /\ \E k \in 1..FieldCount :
          /\ Diverted(k)
          /\ NameIsUnique(k)
          /\ Len(SegmentsOf(FieldName(k))) >= 2
          /\ max_len - OVERHEAD_PADDING >
                Len(unique_prefix \o SegmentHeader(FieldName(k), 1)) + 1

(***************************************************************************)
(* The row ID.  KeyColumn is the 1-based column of the first header name   *)
(* equal to unique_key, 0 when no header name equals it.  IdCells is the   *)
(* row the ID is taken from: the normalized row (CSV), the row as read     *)
(* (XLSX).                                                                 *)
(***************************************************************************)
KeyColumn ==
    IF \E k \in 1..Len(header) : header[k] = unique_key
    THEN CHOOSE k \in 1..Len(header) :
            /\ header[k] = unique_key
            /\ \A j \in 1..(k - 1) : header[j] # unique_key
    ELSE 0

IdCells == IF adapter = "csv" THEN row ELSE raw_row

Ordinals == {UniquePrefix("ROW" \o ToString(n)) : n \in 1..(MaxRows + 1)}

C14_HeaderRowGivesNoChunk ==
    /\ (pc = "csv_rows" /\ nread = 0) => content = <<>>
    /\ (pc = "xlsx_rows" /\ Len(sheet_rows) = 1) => content = <<>>

(***************************************************************************)
(* C13.  Chunks are emitted in row-then-field order: the chunks of the row *)
(* last processed are the last of the content, after those of every        *)
(* earlier row, and within the row no chunk that holds an earlier field's  *)
(* item or segment comes after a chunk that holds a later field's.         *)
(***************************************************************************)
\* the positions in chunks of the chunks that hold field k's item or segments
ChunkPositions(k) ==
    IF Diverted(k)
    THEN {n \in 1..Len(chunks) : IsSegmentOf(chunks[n], FieldName(k))}
    ELSE {n \in 1..Len(chunks) :
             /\ ~IsSegmentChunk(chunks[n])
             /\ \E m \in 1..Len(Items(chunks[n])) :
                   StartsWith(Items(chunks[n])[m], FieldName(k) \o ":")}

C13_RowThenFieldOrder ==
    RowProcessed =>
        /\ Len(content) >= Len(chunks)
        /\ SubSeq(content, Len(content) - Len(chunks) + 1, Len(content)) = chunks
        /\ \A a \in 1..FieldCount, b \in 1..FieldCount :
              (a < b /\ NameIsUnique(a) /\ NameIsUnique(b)) =>
                  \A p \in ChunkPositions(a), q \in ChunkPositions(b) : p <= q

(***************************************************************************)
(* C12.  A fault while extract_text of either adapter reads or parses its  *)
(* file ends the call with a FileCorruptionError whose attached cause is   *)
(* the original fault: no other error escapes, and the cause is not itself *)
(* a FileCorruptionError wrapped round the fault.                          *)
(***************************************************************************)
\* a step of extract_text, of either adapter, that ends the call
ExtractTextEnds ==
    /\ CsvExtractText \/ CsvReturn \/ CsvFault \/ XlsxExtractText \/ XlsxReturn \/ XlsxFault
    /\ pc' = "idle"

C12_FaultWrappedWithOriginalCause ==
    [][(ExtractTextEnds /\ result'.kind = "raise")
          => /\ result'.value = "FileCorruptionError"
             /\ result'.cause \notin {"", "FileCorruptionError"}]_vars

(***************************************************************************)
(* C11.  For every merged region of the sheet: the merged map sends every  *)
(* position of the region but its top-left anchor to the anchor and has no *)
(* anchor as a key, and the value rendered for a non-anchor cell of the    *)
(* row last processed is the value the anchor cell holds, whatever the     *)
(* cell itself holds.                                                      *)
(***************************************************************************)
Anchor(region) == <<region.min_row, region.min_col>>

NonAnchors(region) ==
    {<<r, c>> : r \in region.min_row..region.max_row,
                c \in region.min_col..region.max_col} \ {Anchor(region)}

\* the value the sheet's rows hold at a position, None where they hold nothing
StoredValue(position) ==
    IF position[1] <= Len(sheet_rows) /\ position[2] <= Len(sheet_rows[position[1]])
    THEN sheet_rows[position[1]][position[2]]
    ELSE PyNone

\* the text the field loop gives a cell value
Rendered(value) == XlsxSanitizedCell(_process_cell_value(value, NoLink))

\* field k of the row last processed is in the output with this text as its value
RenderedAs(k, text) ==
    IF XlsxIsOverlong(unique_prefix, FieldName(k), text, max_len)
    THEN Concat(SegmentSlices(FieldName(k))) = text
    ELSE \E n \in 1..Len(PackedChunks) :
            \E m \in 1..Len(Items(PackedChunks[n])) :
                Items(PackedChunks[n])[m]
                    \in {FieldName(k) \o ": " \o text,
                         RStrip(FieldName(k) \o ": " \o text, {";", " "})}

C11_NonAnchorRendersAnchorValue ==
    (RowProcessed /\ adapter = "xlsx") =>
        \A region \in sheet_regions :
            /\ Anchor(region) \notin DOMAIN merged_cells_cache[sheet_name]
            /\ \A position \in NonAnchors(region) :
                  /\ position \in DOMAIN merged_cells_cache[sheet_name]
                  /\ merged_cells_cache[sheet_name][position] = Anchor(region)
            /\ \A k \in 1..Len(raw_row) :
                  <<i, k>> \in NonAnchors(region) =>
                      /\ row[k] = StoredValue(Anchor(region))
                      /\ NameIsUnique(k) =>
                            RenderedAs(k, Rendered(StoredValue(Anchor(region))))

=============================================================================
